---------------------------- MODULE Spec2Model ----------------------------
(***************************************************************************)
(* A model of CodeVeinFix's Utils: the byte serializer bytesToString, the  *)
(* two pattern compilers (the pattern_to_byte lambdas of patch and of      *)
(* patternScan), the signature scanner patternScan and the patcher patch;  *)
(* and of the DLL built on them: DllMain, the worker thread Main and the   *)
(* three fixes it applies to the image of the game.                        *)
(*                                                                         *)
(* Addresses are offsets from the module base.  A C string is a sequence   *)
(* of one-character strings; its terminating NUL is the position just      *)
(* after the last element.  A byte is a number in 0..255.                  *)
(***************************************************************************)
EXTENDS Integers, Sequences, FiniteSets, TLC

VARIABLES
    mem,          \* the bytes mapped from the module base on: the image, then what follows it
    sizeOfImage,  \* ntHeaders->OptionalHeader.SizeOfImage
    prot,         \* the protection of every mapped page
    call,         \* the last call of Utils made, with what it was given and what it did
    memPre,       \* mem when that call began
    protPre,      \* prot when that call began
    header,       \* what the module handle points at: the headers of an image, or not
    yml,          \* the global yml, as readYml fills it
    threads,      \* the threads started on Main, each with its position and locals
    hook,         \* fovFix's static fovMidHook
    installs,     \* how many times a mid-hook has been installed
    steps,        \* the functions Main's threads have begun and ended, in order
    patches,      \* the calls of patch the fixes have made, in order
    log,          \* what the fixes have logged
    loader,       \* what the loader has done with the DLL, and the notifications sent
    cpu           \* the last pass of the game over the hooked address

\* The state of the DLL, which the calls of Utils leave alone.
dllVars == <<header, yml, threads, hook, installs, steps, patches, log, loader, cpu>>

vars == <<mem, sizeOfImage, prot, call, memPre, protPre, header, yml, threads,
          hook, installs, steps, patches, log, loader, cpu>>

-----------------------------------------------------------------------------
(* Bounds of the model. *)

\* The longest stretch of mapped bytes from the base on.
MaxMem == 4
\* The most tokens of a signature or replacement string.
MaxPat == 2
\* Bytes per page (4096 in the build; scaled down so that a patch can span pages).
PageSize == 2
\* The pages mapped from the base on, where a patch is examined.
NumPages == 2
\* The width of size_t (64 in the build; scaled down, and still wider than any
\* address of the model, which is all the scan's loop bound depends on).
SizeBits == 8
\* The most bytes handed to bytesToString.
MaxBytes == 2

-----------------------------------------------------------------------------
(* Characters and C library functions. *)

HexDigits == <<"0", "1", "2", "3", "4", "5", "6", "7",
               "8", "9", "A", "B", "C", "D", "E", "F">>

NUL == "NUL"

\* *(str + pos - 1): the character at a position, the NUL after the last one.
CharAt(str, pos) == IF pos >= 1 /\ pos <= Len(str) THEN str[pos] ELSE NUL

\* isspace of the C locale.
IsSpace(c) == c \in {" ", "\t", "\n", "\r"}

\* The value of a base-16 digit as strtoul reads it (either case), -1 for any
\* other character.
DigitValue(c) ==
    CASE c = "0" -> 0  [] c = "1" -> 1  [] c = "2" -> 2  [] c = "3" -> 3
      [] c = "4" -> 4  [] c = "5" -> 5  [] c = "6" -> 6  [] c = "7" -> 7
      [] c = "8" -> 8  [] c = "9" -> 9
      [] c \in {"A", "a"} -> 10  [] c \in {"B", "b"} -> 11
      [] c \in {"C", "c"} -> 12  [] c \in {"D", "d"} -> 13
      [] c \in {"E", "e"} -> 14  [] c \in {"F", "f"} -> 15
      [] OTHER -> -1

IsHexDigit(c) == DigitValue(c) >= 0

RECURSIVE SkipSpace(_, _)
SkipSpace(str, pos) ==
    IF IsSpace(CharAt(str, pos)) THEN SkipSpace(str, pos + 1) ELSE pos

\* The digits of strtoul from pos on: the value so far, and the position after
\* the last digit.
RECURSIVE ReadDigits(_, _, _)
ReadDigits(str, pos, acc) ==
    IF IsHexDigit(CharAt(str, pos))
    THEN ReadDigits(str, pos + 1, acc * 16 + DigitValue(CharAt(str, pos)))
    ELSE [val |-> acc, endp |-> pos]

\* strtoul(str + pos - 1, &endp, 16): white space, a sign, "0x" before a digit,
\* then the digits.  With no digit there is no conversion: the value is 0 and
\* endp is the position it was given.  The value is kept as magnitude and sign
\* (the strings of the model hold fewer than eight digits in a row, so no
\* magnitude reaches ULONG_MAX).
strtoul(str, pos) ==
    LET p1   == SkipSpace(str, pos)
        sgn  == CharAt(str, p1) \in {"+", "-"}
        p2   == IF sgn THEN p1 + 1 ELSE p1
        pfx  == /\ CharAt(str, p2) = "0"
                /\ CharAt(str, p2 + 1) \in {"x", "X"}
                /\ IsHexDigit(CharAt(str, p2 + 2))
        p3   == IF pfx THEN p2 + 2 ELSE p2
        r    == ReadDigits(str, p3, 0)
    IN  IF r.endp = p3
        THEN [val |-> 0, neg |-> FALSE, endp |-> pos]
        ELSE [val |-> r.val, neg |-> CharAt(str, p1) = "-", endp |-> r.endp]

\* (uint8_t) of strtoul's unsigned long.
ToUint8(r) == IF r.neg THEN (256 - (r.val % 256)) % 256 ELSE r.val % 256

\* strtoul's unsigned long stored in a vector<int>.
ToInt(r) == IF r.neg THEN 0 - r.val ELSE r.val

-----------------------------------------------------------------------------
(* Utils::bytesToString *)

\* A variant of FormatByte without the separator: std::format("{:02X}", byte).
FormatByteNoSeparator(b) == <<HexDigits[(b \div 16) + 1], HexDigits[(b % 16) + 1]>>

\* std::format("{:02X} ", byte)
FormatByte(b) == <<HexDigits[(b \div 16) + 1], HexDigits[(b % 16) + 1], " ">>

RECURSIVE FormatAll(_, _)
FormatAll(bytes, i) ==
    IF i > Len(bytes) THEN <<>>
    ELSE FormatByte(bytes[i]) \o FormatAll(bytes, i + 1)

bytesToString(bytes) ==
    LET pattern == FormatAll(bytes, 1)
    IN  IF pattern # <<>> THEN SubSeq(pattern, 1, Len(pattern) - 1) ELSE pattern

-----------------------------------------------------------------------------
(* The pattern compilers. *)

Wildcard == -1

\* patch's pattern_to_byte: the loop from `current` (a position) on.
RECURSIVE PatchCompileFrom(_, _, _)
PatchCompileFrom(pattern, current, bytes) ==
    IF current > Len(pattern) THEN bytes
    ELSE LET r == strtoul(pattern, current)
         IN  PatchCompileFrom(pattern, r.endp + 1, Append(bytes, ToUint8(r)))

PatchPatternToByte(pattern) == PatchCompileFrom(pattern, 1, <<>>)

\* patternScan's pattern_to_byte: the loop from `current` on.
RECURSIVE ScanCompileFrom(_, _, _)
ScanCompileFrom(pattern, current, bytes) ==
    IF current > Len(pattern) THEN bytes
    ELSE IF CharAt(pattern, current) = "?"
         THEN LET c1 == current + 1
                  c2 == IF CharAt(pattern, c1) = "?" THEN c1 + 1 ELSE c1
              IN  ScanCompileFrom(pattern, c2 + 1, Append(bytes, Wildcard))
         ELSE LET r == strtoul(pattern, current)
              IN  ScanCompileFrom(pattern, r.endp + 1, Append(bytes, ToInt(r)))

ScanPatternToByte(pattern) == ScanCompileFrom(pattern, 1, <<>>)

-----------------------------------------------------------------------------
(* Utils::patternScan *)

\* sizeOfImage - s, in size_t arithmetic.
LoopBound(size, s) == (size - s) % (2 ^ SizeBits)

\* The loop over j at offset i, from j on.  scanBytes[i + j] is read before
\* d[j] is compared with -1.  A read past the image is out of bounds (oob); a
\* read past the mapped bytes is an access violation, which ends the process.
RECURSIVE InnerLoop(_, _, _, _, _, _)
InnerLoop(m, size, d, i, j, oob) ==
    IF j >= Len(d) THEN [found |-> TRUE, crashed |-> FALSE, oob |-> oob]
    ELSE IF i + j >= Len(m) THEN [found |-> FALSE, crashed |-> TRUE, oob |-> TRUE]
    ELSE LET o == oob \/ (i + j >= size)
         IN  IF m[i + j + 1] # d[j + 1] /\ d[j + 1] # Wildcard
             THEN [found |-> FALSE, crashed |-> FALSE, oob |-> o]
             ELSE InnerLoop(m, size, d, i, j + 1, o)

\* The loop over i, from i on; acc is the address vector so far.  i is an
\* unsigned long and the bound a size_t: the comparison is made in size_t, and
\* no offset of the mapped bytes reaches the width of i.
RECURSIVE OuterLoop(_, _, _, _, _, _)
OuterLoop(m, size, d, i, acc, oob) ==
    IF ~(i < LoopBound(size, Len(d)))
    THEN [address |-> acc, crashed |-> FALSE, oob |-> oob]
    ELSE LET r == InnerLoop(m, size, d, i, 0, oob)
         IN  IF r.crashed
             THEN [address |-> acc, crashed |-> TRUE, oob |-> TRUE]
             ELSE OuterLoop(m, size, d, i + 1,
                            IF r.found THEN Append(acc, i) ELSE acc, r.oob)

\* A variant of ScanImage that returns at the first hit.
ScanImageFirstHit(m, size, d) ==
    LET r == OuterLoop(m, size, d, 0, <<>>, FALSE)
    IN  [r EXCEPT !.address = IF r.address = <<>> THEN <<>> ELSE <<r.address[1]>>]

\* The scan of the image for the compiled pattern d.
ScanImage(m, size, d) == OuterLoop(m, size, d, 0, <<>>, FALSE)

NoCall == [kind |-> "none", crashed |-> FALSE]

\* An access violation ends the process: nothing runs after it.
Running == ~call.crashed

\* Utils::patternScan(baseModule, signature, &address).  The size of the
\* image is read through the two headers with no test of their signatures;
\* where nothing is mapped the read faults before the scan begins.
PatternScanCall(signature) ==
    LET d == ScanPatternToByte(signature)
        r == IF header = "unreadable"
             THEN [address |-> <<>>, crashed |-> TRUE, oob |-> TRUE]
             ELSE ScanImage(mem, sizeOfImage, d)
    IN  /\ Running
        /\ call' = [kind |-> "patternScan", signature |-> signature, tokens |-> d,
                    address |-> r.address, crashed |-> r.crashed, oob |-> r.oob,
                    after |-> call]
        /\ memPre' = mem
        /\ protPre' = prot
        /\ UNCHANGED <<mem, sizeOfImage, prot>>

\* The DLL before the loader has called it: the globals zero-initialized, no
\* thread on Main, no hook; the module handle that of an image.
YmlZero ==
    [masterEnable |-> FALSE,
     resolution |-> [aspectRatio |-> <<0, 0, 0, 0>>],
     fix |-> [pillarbox |-> [enable |-> FALSE],
              fov |-> [enable |-> FALSE, multiplier |-> "0.0"]]]
NoHook == [installed |-> FALSE]
CpuIdle == [ran |-> <<>>]
DllIdle ==
    /\ yml = YmlZero
    /\ threads = <<>>
    /\ hook = NoHook
    /\ installs = 0
    /\ steps = <<>>
    /\ patches = <<>>
    /\ log = {}
    /\ loader = [state |-> "loading", notified |-> 0]
    /\ cpu = CpuIdle
DllNotLoaded == header = "valid" /\ DllIdle

-----------------------------------------------------------------------------
(* Inputs. *)

SeqsUpTo(S, n) == UNION {[1..k -> S] : k \in 0..n}

\* The tokens of ts written one after the other, a single space between two.
RECURSIVE Join(_, _)
Join(ts, i) ==
    IF i > Len(ts) THEN <<>>
    ELSE IF i = Len(ts) THEN ts[i]
    ELSE ts[i] \o <<" ">> \o Join(ts, i + 1)

\* The pages of the mapped bytes, and the page of an offset.
Pages(m) == 0..((Len(m) + PageSize - 1) \div PageSize) - 1
PageOf(a) == a \div PageSize

-----------------------------------------------------------------------------
(* The scanner on its own: any image, any IDA-style signature. *)

ScanBytes == {0, 170, 255}
ScanLiterals == {<<"0", "0">>, <<"A", "A">>, <<"F", "F">>, <<"?", "?">>}
ScanSignatures == {Join(ts, 1) : ts \in SeqsUpTo(ScanLiterals, MaxPat)}

InitScan ==
    /\ mem \in SeqsUpTo(ScanBytes, MaxMem) \ {<<>>}
    /\ sizeOfImage \in 1..Len(mem)
    /\ prot = [p \in Pages(mem) |-> "PAGE_EXECUTE_READ"]
    /\ call = NoCall
    /\ memPre = mem
    /\ protPre = prot
    /\ DllNotLoaded

\* One call in a behaviour: the scan of a freshly loaded image.
NextScan ==
    /\ call = NoCall
    /\ \E signature \in ScanSignatures : PatternScanCall(signature)
    /\ UNCHANGED dllVars

SpecScan == InitScan /\ [][NextScan]_vars

\* What the last call was.
Scanned == call.kind = "patternScan"

\* The compiled pattern holds bytes and wildcards only.
TokensAreBytes(d) == \A j \in 1..Len(d) : d[j] = Wildcard \/ d[j] \in 0..255
ExactOnly(d) == \A j \in 1..Len(d) : d[j] \in 0..255

\* The pattern d aligns with the image bytes from offset i on.
AlignsAt(m, d, i) ==
    \A j \in 1..Len(d) : d[j] = Wildcard \/ (d[j] \in 0..255 /\ m[i + j] = d[j])

StrictlyAscending(q) == \A a, b \in 1..Len(q) : a < b => q[a] < q[b]
Range(q) == {q[a] : a \in 1..Len(q)}

\* C1: for a non-empty pattern no longer than the image, patternScan appends
\* exactly the offsets i of [0, sizeOfImage - patternLength) at which every
\* Exact token equals the image byte and a Wildcard accepts any byte (an Exact
\* 0xFF is no wildcard), all of them (no early exit), in strictly ascending
\* order, and reads nothing outside the image.
C1_ScanFindsExactlyTheMatches ==
    (Scanned /\ Len(call.tokens) >= 1 /\ Len(call.tokens) <= sizeOfImage
             /\ TokensAreBytes(call.tokens))
    => /\ ~call.crashed /\ ~call.oob
       /\ StrictlyAscending(call.address)
       /\ Range(call.address) =
            {i \in 0..(sizeOfImage - Len(call.tokens) - 1) :
                AlignsAt(mem, call.tokens, i)}

\* Several hits in one scan, of a pattern with a wildcard and an exact 0xFF,
\* where the wildcard stands for different bytes.
C1_Witness ==
    /\ Scanned /\ Len(call.tokens) <= sizeOfImage /\ ~call.oob
    /\ Len(call.address) >= 2
    /\ \E j, k \in 1..Len(call.tokens) :
          /\ call.tokens[j] = Wildcard /\ call.tokens[k] = 255
          /\ mem[call.address[1] + j] # mem[call.address[2] + j]

\* C2: a signature of exact bytes, scanned in an image that is exactly that
\* byte sequence, gives the single match at offset 0; and a match that starts
\* at the last valid offset sizeOfImage - patternLength is reported.
C2_MatchAtLastOffsetReported ==
    (Scanned /\ Len(call.tokens) >= 1 /\ Len(call.tokens) <= sizeOfImage
             /\ ExactOnly(call.tokens))
    => /\ (SubSeq(mem, 1, sizeOfImage) = call.tokens => call.address = <<0>>)
       /\ (AlignsAt(mem, call.tokens, sizeOfImage - Len(call.tokens))
             => sizeOfImage - Len(call.tokens) \in Range(call.address))

\* C3: patternScan reads no byte outside the image, every address it returns
\* has its pattern span inside the image, and a pattern longer than the image
\* gives an empty result (the loop bound does not wrap around).
C3_ScanBoundsSafe ==
    Scanned
    => /\ ~call.oob /\ ~call.crashed
       /\ \A a \in Range(call.address) : a + Len(call.tokens) <= sizeOfImage
       /\ (Len(call.tokens) > sizeOfImage => call.address = <<>>)

-----------------------------------------------------------------------------
(* The scanner handed a module pointer that is not the base of an image. *)

\* The pointer is at bytes that are no DOS header, or no PE header follows
\* them (the fields read then hold whatever is there), or at nothing mapped;
\* beside these, an image.
InitHeader ==
    /\ mem \in SeqsUpTo(ScanBytes, MaxMem) \ {<<>>}
    /\ header \in {"valid", "invalid", "unreadable"}
    /\ sizeOfImage \in (IF header = "valid" THEN 1..Len(mem) ELSE 0..(Len(mem) + 1))
    /\ prot = [p \in Pages(mem) |-> "PAGE_EXECUTE_READ"]
    /\ call = NoCall
    /\ memPre = mem
    /\ protPre = prot
    /\ DllIdle

NextHeader ==
    /\ call = NoCall
    /\ \E signature \in ScanSignatures \ {<<>>} : PatternScanCall(signature)
    /\ UNCHANGED dllVars

SpecHeader == InitHeader /\ [][NextHeader]_vars

\* C12: when the module pointer is not at the headers of an image, the scan
\* ends in an observable error; it does not return a list of matches as a
\* scan of an image does.
C12_InvalidHeaderReported ==
    (Scanned /\ header # "valid") => call.crashed

-----------------------------------------------------------------------------
(* Utils::patch *)

Protections ==
    {"PAGE_READONLY", "PAGE_READWRITE", "PAGE_EXECUTE_READ", "PAGE_EXECUTE_READWRITE"}

Writable(p) == p \in {"PAGE_READWRITE", "PAGE_EXECUTE_READWRITE"}

\* What `DWORD oldProtect;` may hold while nothing has been stored in it: a
\* protection constant, or a number that is none.
DwordValues == Protections \cup {"garbage"}

\* The pages that hold a byte of [address, address + n).
PagesOfRange(address, n) == {PageOf(a) : a \in address..(address + n - 1)}

\* VirtualProtect can only succeed on a range of mapped pages and with a
\* protection constant.
CanProtect(m, address, n, newProtect) ==
    /\ PagesOfRange(address, n) \subseteq Pages(m)
    /\ newProtect \in Protections

\* The page protections after VirtualProtect(address, n, newProtect, &old):
\* on success every page of the range gets newProtect, on failure none changes.
VirtualProtect(p, address, n, newProtect, ok) ==
    IF ok
    THEN [pg \in DOMAIN p |->
            IF pg \in PagesOfRange(address, n) THEN newProtect ELSE p[pg]]
    ELSE p

\* What a successful VirtualProtect stores in *lpflOldProtect: the protection
\* of the first page of the range.
OldProtection(p, address) == p[PageOf(address)]

\* The first byte of the copy that cannot be stored (it lies in no mapped page,
\* or in a page that is not writable); n when every byte can.
FaultIndex(m, p, address, n) ==
    LET bad == {k \in 0..(n - 1) :
                  \/ address + k >= Len(m)
                  \/ ~Writable(p[PageOf(address + k)])}
    IN  IF bad = {} THEN n ELSE CHOOSE k \in bad : \A l \in bad : k <= l

\* A variant of Memcpy that stops at the end of the image.
MemcpyWithinImage(m, address, bytes, w) ==
    [k \in 1..Len(m) |->
        IF (k - 1) \in address..(address + w - 1) /\ k <= sizeOfImage
        THEN bytes[k - address] ELSE m[k]]

\* A variant of Memcpy that stores one byte further on.
MemcpyShifted(m, address, bytes, w) ==
    [k \in 1..Len(m) |->
        IF (k - 2) \in address..(address + w - 1)
        THEN bytes[k - 1 - address] ELSE m[k]]

\* The memory after the first w bytes of `bytes` are stored from address on.
Memcpy(m, address, bytes, w) ==
    [k \in 1..Len(m) |->
        IF (k - 1) \in address..(address + w - 1)
        THEN bytes[k - address] ELSE m[k]]

\* Utils::patch(address, pattern).  VirtualProtect may refuse (ok1, ok2); on a
\* refusal oldProtect keeps whatever it held (uninit).  A store that faults
\* ends the process, with some of the bytes before the fault stored.
PatchCall(address, pattern) ==
    LET patternBytes == PatchPatternToByte(pattern)
        n == Len(patternBytes)
        rwx == "PAGE_EXECUTE_READWRITE"
    IN  \E ok1, ok2 \in BOOLEAN, uninit \in DwordValues :
          LET oldProtect == IF ok1 THEN OldProtection(prot, address) ELSE uninit
              prot1 == VirtualProtect(prot, address, n, rwx, ok1)
              fault == FaultIndex(mem, prot1, address, n)
              crashed == fault < n
          IN  /\ Running
              /\ ok1 => (CanProtect(mem, address, n, rwx) /\ uninit = "garbage")
              /\ ok2 => (~crashed /\ CanProtect(mem, address, n, oldProtect))
              /\ \E w \in (IF crashed THEN 0..fault ELSE {n}) :
                    /\ mem' = Memcpy(mem, address, patternBytes, w)
                    /\ call' = [kind |-> "patch", address |-> address,
                                pattern |-> pattern, bytes |-> patternBytes,
                                protected |-> ok1, wrote |-> w,
                                restoreAttempted |-> ~crashed,
                                restoreWith |-> oldProtect, restored |-> ok2,
                                crashed |-> crashed]
              /\ prot' = IF crashed THEN prot1
                         ELSE VirtualProtect(prot1, address, n, oldProtect, ok2)
              /\ memPre' = mem
              /\ protPre' = prot
              /\ UNCHANGED sizeOfImage

-----------------------------------------------------------------------------
(* The patcher: one patch of an image, then a scan for what it wrote. *)

\* The bytes of the image before any patch (those of the pillarbox signature,
\* over and over).
ImageBytes == <<246, 65, 44, 1, 76>>
PatchLiterals == {<<"0", "0">>, <<"F", "6">>}
PatchPatterns == {Join(ts, 1) : ts \in SeqsUpTo(PatchLiterals, MaxPat) \ {<<>>}}

InitPatch ==
    /\ mem = [k \in 1..(NumPages * PageSize) |-> ImageBytes[((k - 1) % Len(ImageBytes)) + 1]]
    /\ sizeOfImage \in 1..Len(mem)
    /\ prot \in [Pages(mem) -> Protections \ {"PAGE_EXECUTE_READWRITE"}]
    /\ call = NoCall
    /\ memPre = mem
    /\ protPre = prot
    /\ DllNotLoaded

NextPatch ==
    \/ /\ call = NoCall
       /\ \E address \in 0..(sizeOfImage - 1), pattern \in PatchPatterns :
             PatchCall(address, pattern)
       /\ UNCHANGED dllVars
    \/ /\ call.kind = "patch"
       /\ PatternScanCall(call.pattern)
       /\ UNCHANGED dllVars

SpecPatch == InitPatch /\ [][NextPatch]_vars

Patched == call.kind = "patch"

-----------------------------------------------------------------------------
(* The serializer and the two compilers on their own. *)

\* Bytes whose two digits cover every hex digit, and the values of the header's
\* examples (0x12345678 and 3.5555556f as they lie in memory) and of 16:9.
SampleBytes == {0, 9, 10, 18, 52, 63, 86, 120, 142, 156, 171, 205, 227, 239, 240, 255}
DocBytes == {<<120, 86, 52, 18>>, <<57, 142, 99, 64>>, <<57, 142, 227, 63>>}
ByteInputs ==
    SeqsUpTo(0..255, 1) \cup SeqsUpTo(SampleBytes, MaxBytes) \cup DocBytes

\* Signatures of the grammar: byte literals and wildcard markers, any white
\* space before, between and after them, none needed next to a marker.
Gaps == {<<>>, <<" ">>, <<" ", " ">>}
Markers == {<<"?">>, <<"?", "?">>}
Literals == {<<"A", "A">>, <<"B", "B">>}
GrammarSignatures ==
    {<<"A", "A", "?", "?", "B", "B">>, <<"A", "A", " ", "?", "?", "B", "B">>,
     <<"A", "A", "?", " ", "B", "B">>,
     <<"A", "A", " ", " ", "?", "?", " ", " ", "B", "B">>}
    \cup {g1 \o l \o g2 \o w \o g3 : g1 \in Gaps, l \in Literals, g2 \in Gaps,
                                     w \in Markers, g3 \in Gaps}
    \cup {g1 \o w \o g2 \o l \o g3 : g1 \in Gaps, l \in Literals, g2 \in Gaps,
                                     w \in Markers, g3 \in Gaps}
    \cup {g1 \o l1 \o g2 \o l2 \o g3 : g1 \in Gaps, l1 \in Literals,
                                       g2 \in Gaps \ {<<>>}, l2 \in Literals,
                                       g3 \in Gaps}

\* Utils::bytesToString(bytes, size)
BytesToStringCall(bytes) ==
    /\ call' = [kind |-> "bytesToString", bytes |-> bytes,
                str |-> bytesToString(bytes), crashed |-> FALSE]
    /\ UNCHANGED <<mem, sizeOfImage, prot, memPre, protPre, dllVars>>

\* patch's pattern_to_byte on the string bytesToString gave.
PatchCompileSerialized ==
    /\ call.kind = "bytesToString"
    /\ call' = [kind |-> "patchCompile", bytes |-> call.bytes, str |-> call.str,
                tokens |-> PatchPatternToByte(call.str), crashed |-> FALSE]
    /\ UNCHANGED <<mem, sizeOfImage, prot, memPre, protPre, dllVars>>

\* patternScan's pattern_to_byte on the string bytesToString gave.
ScanCompileSerialized ==
    /\ call.kind = "bytesToString"
    /\ call' = [kind |-> "scanCompile", bytes |-> call.bytes, str |-> call.str,
                tokens |-> ScanPatternToByte(call.str), crashed |-> FALSE]
    /\ UNCHANGED <<mem, sizeOfImage, prot, memPre, protPre, dllVars>>

\* patternScan's pattern_to_byte on a signature.
ScanCompileSignature(signature) ==
    /\ call' = [kind |-> "signatureCompile", str |-> signature,
                tokens |-> ScanPatternToByte(signature), crashed |-> FALSE]
    /\ UNCHANGED <<mem, sizeOfImage, prot, memPre, protPre, dllVars>>

\* Strings outside the grammar: a character that is no hex digit, white space
\* or marker, a literal of one digit or of three, a sign, a base prefix.
OutsideSignatures ==
    {<<"G", "G">>, <<"0", "0", " ", "Z", "Z">>, <<"A">>, <<"A", "B", "C">>,
     <<"-", "1">>, <<"0", "x", "4", "1">>, <<"4", "1", ",", "2", "C">>}
\* Replacement strings outside the grammar: these, and any with a marker.
OutsideReplacements ==
    OutsideSignatures \cup {<<"?", "?">>, <<"F", "6", " ", "?">>}

\* patternScan's pattern_to_byte on a string outside the grammar.
ScanCompileOutside(str) ==
    /\ call' = [kind |-> "scanCompileOutside", str |-> str,
                tokens |-> ScanPatternToByte(str), crashed |-> FALSE]
    /\ UNCHANGED <<mem, sizeOfImage, prot, memPre, protPre, dllVars>>

\* patch's pattern_to_byte on a string outside the grammar.
PatchCompileOutside(str) ==
    /\ call' = [kind |-> "patchCompileOutside", str |-> str,
                tokens |-> PatchPatternToByte(str), crashed |-> FALSE]
    /\ UNCHANGED <<mem, sizeOfImage, prot, memPre, protPre, dllVars>>

InitCompile ==
    /\ mem = <<>>
    /\ sizeOfImage = 0
    /\ prot = <<>>
    /\ call = NoCall
    /\ memPre = mem
    /\ protPre = prot
    /\ DllNotLoaded

\* One string in a behaviour: serialized and then compiled, or a signature
\* compiled.
NextCompile ==
    \/ call = NoCall /\ \E bytes \in ByteInputs : BytesToStringCall(bytes)
    \/ PatchCompileSerialized
    \/ ScanCompileSerialized
    \/ call = NoCall /\ \E signature \in GrammarSignatures : ScanCompileSignature(signature)
    \/ call = NoCall /\ \E str \in OutsideSignatures : ScanCompileOutside(str)
    \/ call = NoCall /\ \E str \in OutsideReplacements : PatchCompileOutside(str)

SpecCompile == InitCompile /\ [][NextCompile]_vars

\* The string is n upper-case two-digit hex bytes, the values of b in order,
\* a single space between two and none at the end.
IsHexDump(str, b) ==
    /\ Len(str) = (IF Len(b) = 0 THEN 0 ELSE 3 * Len(b) - 1)
    /\ \A i \in 1..Len(b) :
          /\ str[3 * i - 2] \in Range(HexDigits)
          /\ str[3 * i - 1] \in Range(HexDigits)
          /\ 16 * DigitValue(str[3 * i - 2]) + DigitValue(str[3 * i - 1]) = b[i]
          /\ (i < Len(b) => str[3 * i] = " ")

\* C9: bytesToString gives upper-case two-digit hex bytes in memory order with
\* single spaces and no trailing space, and either compiler turns that string
\* back into exactly the bytes: one Exact token per byte, no wildcard, none
\* extra or missing.
C9_SerializationRoundTrips ==
    /\ (call.kind \in {"bytesToString", "patchCompile", "scanCompile"}
          => IsHexDump(call.str, call.bytes))
    /\ (call.kind \in {"patchCompile", "scanCompile"}
          => call.tokens = call.bytes)

\* The header's example, 0x12345678 as it lies in memory, serialized and
\* compiled back by the patcher.
C9_Witness ==
    /\ call.kind = "patchCompile"
    /\ call.bytes = <<120, 86, 52, 18>>
    /\ call.str = <<"7", "8", " ", "5", "6", " ", "3", "4", " ", "1", "2">>
    /\ call.tokens = <<120, 86, 52, 18>>

\* The tokens of a signature as the grammar reads it, left to right: white
\* space skipped, "?" or "??" one wildcard, two hex digits one exact byte.
RECURSIVE GrammarTokens(_, _)
GrammarTokens(str, pos) ==
    LET p == SkipSpace(str, pos)
    IN  IF p > Len(str) THEN <<>>
        ELSE IF str[p] = "?"
             THEN <<Wildcard>>
                  \o GrammarTokens(str, IF CharAt(str, p + 1) = "?" THEN p + 2 ELSE p + 1)
        ELSE IF IsHexDigit(str[p]) /\ IsHexDigit(CharAt(str, p + 1))
             THEN <<16 * DigitValue(str[p]) + DigitValue(str[p + 1])>>
                  \o GrammarTokens(str, p + 2)
        ELSE <<"malformed">>

\* C10: the scanner's compiler yields one Exact token per two-digit literal and
\* one Wildcard per "?" or "??", whatever the white space before, between and
\* after the tokens, with no separator needed next to a wildcard marker.
C10_CompilerToleratesSpacing ==
    call.kind = "signatureCompile" => call.tokens = GrammarTokens(call.str, 1)

\* The string is one of the grammar; a replacement string has no marker.
RECURSIVE InGrammarFrom(_, _)
InGrammarFrom(str, pos) ==
    LET p == SkipSpace(str, pos)
    IN  IF p > Len(str) THEN TRUE
        ELSE IF str[p] = "?"
             THEN InGrammarFrom(str, IF CharAt(str, p + 1) = "?" THEN p + 2 ELSE p + 1)
        ELSE IF IsHexDigit(str[p]) /\ IsHexDigit(CharAt(str, p + 1))
             THEN InGrammarFrom(str, p + 2)
        ELSE FALSE
InGrammar(str) == InGrammarFrom(str, 1)
IsWellFormedReplacement(str) ==
    InGrammar(str) /\ \A i \in 1..Len(str) : str[i] # "?"

\* C11: a signature or replacement string outside the grammar (a character
\* that is no hex digit, white space or marker, a literal not of two digits, a
\* marker in a replacement string) is rejected by the compiler: no token
\* comes out of it, neither a 0x00 nor a truncated value.
C11_OutsideGrammarRejected ==
    /\ (call.kind = "scanCompileOutside" /\ ~InGrammar(call.str)
          => call.tokens = <<>>)
    /\ (call.kind = "patchCompileOutside" /\ ~IsWellFormedReplacement(call.str)
          => call.tokens = <<>>)

-----------------------------------------------------------------------------
(* Properties of the patcher. *)

\* The replacement string is n upper-case two-digit hex bytes with single
\* spaces ("DE AD BE EF"), and the bytes it spells.
ReplacementBytes(str) ==
    [i \in 1..((Len(str) + 1) \div 3) |->
        16 * DigitValue(str[3 * i - 2]) + DigitValue(str[3 * i - 1])]
IsReplacement(str) == Len(str) >= 2 /\ IsHexDump(str, ReplacementBytes(str))

\* C4: patch with a well-formed replacement string of N bytes changes no byte
\* outside address[0]..address[N-1], and, the protection change granted,
\* leaves exactly the N byte values there, in order.
C4_PatchWritesExactlyTheBytes ==
    (Patched /\ IsReplacement(call.pattern))
    => LET b == ReplacementBytes(call.pattern)
           span == call.address..(call.address + Len(b) - 1)
       IN  /\ Len(mem) = Len(memPre)
           /\ \A k \in 1..Len(mem) : (k - 1) \notin span => mem[k] = memPre[k]
           /\ call.protected
                => /\ ~call.crashed
                   /\ \A j \in 1..Len(b) : mem[call.address + j] = b[j]

\* A patch of N bytes over a longer stretch of the image: the bytes written
\* differ from those before, and the byte after them is inside the image.
C4_Witness ==
    /\ Patched /\ call.protected /\ Len(call.bytes) = MaxPat
    /\ call.address + Len(call.bytes) < sizeOfImage
    /\ \A j \in 1..Len(call.bytes) : mem[call.address + j] # memPre[call.address + j]
    /\ mem[call.address + Len(call.bytes) + 1] = memPre[call.address + Len(call.bytes) + 1]

\* C5: a patch of exact bytes that fit inside the image from the address on
\* (up to a region that ends at the end of the image), followed at once by a
\* scan for the same bytes, gives a result that contains the address.
C5_PatchThenScanFindsAddress ==
    (/\ Scanned /\ call.after.kind = "patch"
     /\ call.signature = call.after.pattern
     /\ IsReplacement(call.signature)
     /\ call.after.wrote = Len(call.after.bytes)
     /\ call.after.address + Len(call.after.bytes) <= sizeOfImage)
    => call.after.address \in Range(call.address)

\* C6: after a patch whose two protection changes were granted, every page the
\* written region overlaps has the protection it had before the call.
C6_PatchRestoresProtection ==
    (Patched /\ call.protected /\ call.restored)
    => \A pg \in PagesOfRange(call.address, Len(call.bytes)) : prot[pg] = protPre[pg]

\* C7: when the change to execute+read+write is refused, patch writes no byte
\* and attempts no restore (with an old protection it never captured).
C7_NoWriteWhenProtectFails ==
    (Patched /\ ~call.protected)
    => call.wrote = 0 /\ ~call.restoreAttempted

\* C8, as stated: a patch whose span exceeds the image is detected before any
\* byte is written; the write is never performed.
C8_OutOfImagePatchRefused ==
    (Patched /\ call.address + Len(call.bytes) > sizeOfImage)
    => call.wrote = 0

\* C8, amended: patch does not compare its span with the image (that is the
\* caller's part).  Whenever it returns it has stored all N bytes from the
\* address on, beyond the end of the image too: never a part of them.
C8_PatchNeverTruncates ==
    (Patched /\ ~call.crashed)
    => /\ call.wrote = Len(call.bytes)
       /\ \A j \in 1..Len(call.bytes) : mem[call.address + j] = call.bytes[j]

\* A patch that returned, whose span ends past the image, in bytes that
\* differed before.
C8_Witness ==
    /\ Patched /\ ~call.crashed
    /\ call.address + Len(call.bytes) > sizeOfImage
    /\ mem[call.address + Len(call.bytes)] # memPre[call.address + Len(call.bytes)]

-----------------------------------------------------------------------------
(* The DLL: its inputs. *)

\* The most pieces of code and data an image is made of after its headers.
MaxChunks == 2
\* The most thread notifications the loader sends to DllMain.
MaxNotifications == 1

\* patternFind and patternPatch of the fixes.
ResolutionFind == <<"3", "9", " ", "8", "E", " ", "E", "3", " ", "3", "F">>
PillarBoxFind ==
    <<"F", "6", " ", "4", "1", " ", "2", "C", " ", "0", "1", " ", "4", "C">>
PillarBoxPatch == <<"F", "6", " ", "4", "1", " ", "2", "C", " ", "0", "0">>
FovFind ==
    <<"F", "3", " ", "0", "F", " ", "1", "0", " ", "8", "1", " ", "9", "C", " ",
      "0", "3", " ", "0", "0", " ", "0", "0", " ", "0", "F", " ", "5", "7", " ",
      "C", "9", " ", "0", "F", " ", "2", "F", " ", "C", "1">>
\* uintptr_t hookOffset
HookOffset == 8

\* The bytes the signatures stand for, as they lie in the game's image.
ResolutionBytes == ScanPatternToByte(ResolutionFind)
PillarBoxBytes == ScanPatternToByte(PillarBoxFind)
FovBytes == ScanPatternToByte(FovFind)

\* An image: its headers ("MZ" first; as long as the longest signature, so
\* that no signature is longer than the image), then up to MaxChunks pieces,
\* each one of the three byte strings the fixes look for or a single other
\* byte; the last piece ends the image, or one more byte does.
HeaderBytes ==
    [k \in 1..Len(FovBytes) |-> IF k = 1 THEN 77 ELSE IF k = 2 THEN 90 ELSE 0]
Chunks == {ResolutionBytes, PillarBoxBytes, FovBytes, <<144>>}
RECURSIVE Flatten(_, _)
Flatten(cs, i) == IF i > Len(cs) THEN <<>> ELSE cs[i] \o Flatten(cs, i + 1)
Tails == {<<>>, <<144>>}
Images ==
    {HeaderBytes \o Flatten(cs, 1) \o tail :
        cs \in SeqsUpTo(Chunks, MaxChunks) \ {<<>>}, tail \in Tails}

\* (float)width / (float)height as it lies in memory, for 2560x1080 and
\* 3840x1080; and fixes.fov.multiplier, which only the hook's callback reads.
AspectRatios == {<<38, 180, 23, 64>>, <<57, 142, 99, 64>>}
FovMultipliers == {"1.2"}

\* What addr[0] gives.  Of a result with an element, the first match.  Of an
\* empty result the read is of no element at all: it faults, or gives null,
\* or gives some other number, here the offset of the first byte of the image
\* or of its last.
FirstElement(addr, m) ==
    IF addr # <<>>
    THEN {[kind |-> "match", at |-> addr[1], of |-> Len(addr)]}
    ELSE {[kind |-> "fault", at |-> 0, of |-> 0], [kind |-> "null", at |-> 0, of |-> 0],
          [kind |-> "wild", at |-> 0, of |-> 0],
          [kind |-> "wild", at |-> Len(m) - 1, of |-> 0]}
NoHit == [kind |-> "none", at |-> 0, of |-> 0]

\* The bytes a mid-hook puts at its target: a jump to the hook's stub (E9 and
\* a displacement, whose four bytes depend on where the stub was allocated).
JmpBytes == <<233, 0, 0, 0, 0>>

-----------------------------------------------------------------------------
(* DllMain and Main. *)

\* The calls of Main, in the order of its body: what follows each.
After(step) ==
    CASE step = "logInit" -> "readYml"
      [] step = "readYml" -> "resolutionFix"
      [] step = "resolutionFix" -> "pillarBoxFix"
      [] step = "pillarBoxFix" -> "fovFix"
      [] step = "fovFix" -> "done"

\* A variant of StartsMain in which DLL_THREAD_ATTACH starts Main as well.
StartsMainOnThreadAttach(reason) ==
    reason \in {"DLL_PROCESS_ATTACH", "DLL_THREAD_ATTACH"}
\* The cases of DllMain's switch that call CreateThread.
StartsMain(reason) == reason = "DLL_PROCESS_ATTACH"

\* A thread created on Main, with the locals of the fix it is in.
NewThread(reason) ==
    [pc |-> "logInit", by |-> reason, addr |-> <<>>, i |-> 0, hit |-> NoHit]

Threads == 1..Len(threads)

\* The process runs until an access violation, or until the loader has sent
\* DLL_PROCESS_DETACH.
ProcessRunning ==
    /\ Running
    /\ loader.state = "attached"
    /\ \A t \in Threads : threads[t].pc # "crashed"

utilsVars == <<mem, sizeOfImage, prot, call, memPre, protPre>>

\* DllMain(hModule, ul_reason_for_call, lpReserved); CreateThread may fail.
DllMain(reason) ==
    /\ Running
    /\ \E created \in (IF StartsMain(reason) THEN BOOLEAN ELSE {FALSE}) :
          threads' = IF created THEN Append(threads, NewThread(reason)) ELSE threads
    /\ UNCHANGED <<utilsVars, header, yml, hook, installs, steps, patches, log, cpu>>

Begin(f) == <<f, "begin">>
End(f) == <<f, "end">>

\* logInit()
LogInit(t) ==
    /\ ProcessRunning
    /\ threads[t].pc = "logInit"
    /\ threads' = [threads EXCEPT ![t].pc = After("logInit")]
    /\ steps' = steps \o <<Begin("logInit"), End("logInit")>>
    /\ UNCHANGED <<utilsVars, header, yml, hook, installs, patches, log, loader, cpu>>

\* readYml(), the configuration file holding any values.
ReadYml(t) ==
    /\ ProcessRunning
    /\ threads[t].pc = "readYml"
    /\ \E masterEnable, pillarbox, fov \in BOOLEAN,
          aspectRatio \in AspectRatios, multiplier \in FovMultipliers :
          yml' = [masterEnable |-> masterEnable,
                  resolution |-> [aspectRatio |-> aspectRatio],
                  fix |-> [pillarbox |-> [enable |-> pillarbox],
                           fov |-> [enable |-> fov, multiplier |-> multiplier]]]
    /\ threads' = [threads EXCEPT ![t].pc = After("readYml")]
    /\ steps' = steps \o <<Begin("readYml"), End("readYml")>>
    /\ UNCHANGED <<utilsVars, header, hook, installs, patches, log, loader, cpu>>

-----------------------------------------------------------------------------
(* The fixes. *)

\* bool enable = yml.masterEnable & yml.fix.pillarbox.enable; in each fix.
ResolutionFixEnable == yml.masterEnable /\ yml.fix.pillarbox.enable
PillarBoxFixEnable == yml.masterEnable /\ yml.fix.pillarbox.enable
\* A variant of FovFixEnable that leaves the master switch out.
FovFixEnableWithoutMaster == yml.fix.pillarbox.enable
FovFixEnable == yml.masterEnable /\ yml.fix.pillarbox.enable

Enabled(f) == <<f, "Fix Enabled">>
Disabled(f) == <<f, "Fix Disabled">>
DidNotFind(f) == <<f, "Did not find">>

\* A fix whose flag is off: it logs that and returns.
SkipFix(t, f) ==
    /\ threads' = [threads EXCEPT ![t].pc = After(f)]
    /\ steps' = steps \o <<Begin(f), End(f)>>
    /\ log' = log \cup {Disabled(f)}
    /\ UNCHANGED utilsVars

\* resolutionFix(), up to the loop over the matches.
ResolutionFix(t) ==
    /\ ProcessRunning
    /\ threads[t].pc = "resolutionFix"
    /\ IF ResolutionFixEnable
       THEN /\ PatternScanCall(ResolutionFind)
            /\ threads' = [threads EXCEPT ![t] =
                  [@ EXCEPT !.addr = call'.address, !.i = 0,
                            !.pc = IF call'.address = <<>>
                                   THEN After("resolutionFix")
                                   ELSE "resolutionFix.patch"]]
            /\ steps' = steps \o <<Begin("resolutionFix")>>
                        \o (IF call'.address = <<>>
                            THEN <<End("resolutionFix")>> ELSE <<>>)
            /\ log' = log \cup {Enabled("resolutionFix")}
       ELSE SkipFix(t, "resolutionFix")
    /\ UNCHANGED <<header, yml, hook, installs, patches, loader, cpu>>

\* One turn of resolutionFix's loop: the patch of addr[i], and i++.
ResolutionFixPatch(t) ==
    LET th == threads[t]
        address == th.addr[th.i + 1]
        last == th.i + 1 = Len(th.addr)
    IN  /\ ProcessRunning
        /\ th.pc = "resolutionFix.patch"
        /\ PatchCall(address, bytesToString(yml.resolution.aspectRatio))
        /\ patches' = Append(patches, [fix |-> "resolutionFix", address |-> address])
        /\ threads' = [threads EXCEPT ![t] =
              [@ EXCEPT !.i = @ + 1,
                        !.pc = IF last /\ ~call'.crashed
                               THEN After("resolutionFix") ELSE @]]
        /\ steps' = IF last /\ ~call'.crashed
                    THEN Append(steps, End("resolutionFix")) ELSE steps
        /\ UNCHANGED <<header, yml, hook, installs, log, loader, cpu>>

\* A fix that takes addr[0], up to the test of hit: the scan, then the read
\* of the first element whether or not there is one.
ScanForFirst(t, f, patternFind) ==
    /\ PatternScanCall(patternFind)
    /\ \E hit \in FirstElement(call'.address, mem) :
          /\ threads' = [threads EXCEPT ![t] =
                [@ EXCEPT !.addr = call'.address, !.hit = hit,
                          !.pc = CASE hit.kind = "fault" -> "crashed"
                                   [] hit.kind = "null" -> After(f)
                                   [] OTHER -> f \o ".hit"]]
          /\ steps' = steps \o <<Begin(f)>>
                      \o (IF hit.kind = "null" THEN <<End(f)>> ELSE <<>>)
          /\ log' = log \cup {Enabled(f)}
                    \cup (IF hit.kind = "null" THEN {DidNotFind(f)} ELSE {})

\* pillarBoxFix(), up to the test of hit.
PillarBoxFix(t) ==
    /\ ProcessRunning
    /\ threads[t].pc = "pillarBoxFix"
    /\ IF PillarBoxFixEnable
       THEN ScanForFirst(t, "pillarBoxFix", PillarBoxFind)
       ELSE SkipFix(t, "pillarBoxFix")
    /\ UNCHANGED <<header, yml, hook, installs, patches, loader, cpu>>

\* pillarBoxFix(), hit not null: the patch.
PillarBoxFixPatch(t) ==
    LET address == threads[t].hit.at
    IN  /\ ProcessRunning
        /\ threads[t].pc = "pillarBoxFix.hit"
        /\ PatchCall(address, PillarBoxPatch)
        /\ patches' = Append(patches, [fix |-> "pillarBoxFix", address |-> address])
        /\ threads' = [threads EXCEPT ![t].pc =
                          IF call'.crashed THEN @ ELSE After("pillarBoxFix")]
        /\ steps' = IF call'.crashed THEN steps
                    ELSE Append(steps, End("pillarBoxFix"))
        /\ UNCHANGED <<header, yml, hook, installs, log, loader, cpu>>

\* fovFix(), up to the test of hit.
FovFix(t) ==
    /\ ProcessRunning
    /\ threads[t].pc = "fovFix"
    /\ IF FovFixEnable
       THEN ScanForFirst(t, "fovFix", FovFind)
       ELSE SkipFix(t, "fovFix")
    /\ UNCHANGED <<header, yml, hook, installs, patches, loader, cpu>>

\* A variant of HookAddress that hooks the first instruction of the match.
HookAddressOfMatch(absAddr) == absAddr
\* uintptr_t hookAbsAddr = absAddr + hookOffset;
HookAddress(absAddr) == absAddr + HookOffset

\* fovFix(), hit not null: fovMidHook = safetyhook::create_mid(hookAbsAddr,
\* ...).  create_mid gives an empty hook when it cannot hook the address (one
\* with no mapped code at it, for one); a hook made puts its jump over the
\* code at the address.  The assignment replaces what fovMidHook held.
FovFixHook(t) ==
    LET th == threads[t]
        hookAbsAddr == HookAddress(th.hit.at)
    IN  /\ ProcessRunning
        /\ th.pc = "fovFix.hit"
        /\ \E created \in BOOLEAN :
              /\ created => hookAbsAddr + Len(JmpBytes) <= Len(mem)
              /\ hook' = IF created
                         THEN [installed |-> TRUE, address |-> hookAbsAddr,
                               first |-> th.hit]
                         ELSE NoHook
              /\ installs' = installs + (IF created THEN 1 ELSE 0)
              /\ mem' = IF created
                        THEN Memcpy(mem, hookAbsAddr, JmpBytes, Len(JmpBytes))
                        ELSE mem
        /\ threads' = [threads EXCEPT ![t].pc = After("fovFix")]
        /\ steps' = Append(steps, End("fovFix"))
        /\ log' = log \cup {<<"fovFix", "Hooked">>}
        /\ UNCHANGED <<sizeOfImage, prot, call, memPre, protPre, header, yml,
                       patches, loader, cpu>>

\* The game comes to the hooked address: the hook's stub calls the callback
\* with the registers, puts them back as the callback left them, and runs
\* the instruction that was at the address.
HookedExecution ==
    /\ ProcessRunning
    /\ hook.installed
    /\ cpu' = [ran |-> <<"callback", "original instruction">>,
               at |-> hook.address,
               xmm0 |-> [newFov |-> yml.resolution.aspectRatio,
                         times |-> yml.fix.fov.multiplier]]
    /\ UNCHANGED <<utilsVars, header, yml, threads, hook, installs, steps,
                   patches, log, loader>>

InitMain ==
    /\ mem \in Images
    /\ sizeOfImage = Len(mem)
    /\ prot = [p \in Pages(mem) |-> "PAGE_EXECUTE_READ"]
    /\ call = NoCall
    /\ memPre = mem
    /\ protPre = prot
    /\ header = "valid"
    /\ DllIdle

\* The loader sends DLL_PROCESS_ATTACH once, first; then thread notifications
\* as threads of the process come and go; DLL_PROCESS_DETACH last.
NextMain ==
    \/ /\ loader.state = "loading"
       /\ DllMain("DLL_PROCESS_ATTACH")
       /\ loader' = [loader EXCEPT !.state = "attached"]
    \/ /\ ProcessRunning
       /\ loader.notified < MaxNotifications
       /\ \E reason \in {"DLL_THREAD_ATTACH", "DLL_THREAD_DETACH"} : DllMain(reason)
       /\ loader' = [loader EXCEPT !.notified = @ + 1]
    \/ /\ loader.state = "attached"
       /\ DllMain("DLL_PROCESS_DETACH")
       /\ loader' = [loader EXCEPT !.state = "detached"]
    \/ \E t \in Threads : LogInit(t)
    \/ \E t \in Threads : ReadYml(t)
    \/ \E t \in Threads : ResolutionFix(t)
    \/ \E t \in Threads : ResolutionFixPatch(t)
    \/ \E t \in Threads : PillarBoxFix(t)
    \/ \E t \in Threads : PillarBoxFixPatch(t)
    \/ \E t \in Threads : FovFix(t)
    \/ \E t \in Threads : FovFixHook(t)
    \/ HookedExecution

SpecMain == InitMain /\ [][NextMain]_vars

-----------------------------------------------------------------------------
(* Properties of the fixes. *)

\* The offsets of the image at which the bytes d lie.
Occurrences(m, d) == {i \in 0..(Len(m) - Len(d)) : AlignsAt(m, d, i)}

\* The addresses a fix has called patch with, in the order of the calls.
PatchedBy(f) ==
    LET own == SelectSeq(patches, LAMBDA p : p.fix = f)
    IN  [k \in 1..Len(own) |-> own[k].address]

\* C13: when resolutionFix is enabled, the 16:9 constant lay at several
\* offsets of the image and the fix has returned, it has patched every one of
\* those offsets, one patch per offset, in ascending order, each with the four
\* bytes of the target aspect ratio: those bytes lie at every patched offset
\* and the constant lies nowhere.
C13_EveryMatchPatchedInOrder ==
    \A t \in Threads :
        LET at == PatchedBy("resolutionFix")
        IN  (/\ threads[t].pc = After("resolutionFix")
             /\ ResolutionFixEnable
             /\ Cardinality(Occurrences(mem, ResolutionBytes) \cup Range(at)) >= 2)
            => /\ StrictlyAscending(at)
               /\ \A k \in 1..Len(at) :
                     SubSeq(mem, at[k] + 1, at[k] + 4) = yml.resolution.aspectRatio
               /\ Occurrences(mem, ResolutionBytes) = {}

\* C14: a fix whose scan gave no match reads no element of the empty result:
\* a first element is taken only of a result that has one.  (The fix is then
\* skipped, and the fixes after it run.)
C14_NoMatchReadsNoElement ==
    \A t \in Threads : threads[t].hit.kind # "none" => threads[t].hit.of > 0

\* The jump of an installed hook lies at its address.
HookInPlace(m) ==
    SubSeq(m, hook.address + 1, hook.address + Len(JmpBytes)) = JmpBytes

\* C15: a mid-hook is installed at most once; the one fovFix installs on the
\* first match of its signature is at that match + 8; from then on no step
\* removes it, replaces it or writes over it; and each time the game comes to
\* the hooked address the callback runs first, leaving its value in lane 0 of
\* xmm0, and the instruction that was at the address runs after it.
C15_HookStaysInstalled ==
    /\ [](installs <= 1)
    /\ []((hook.installed /\ hook.first.kind = "match")
            => \E t \in Threads :
                  /\ threads[t].addr # <<>>
                  /\ hook.address = threads[t].addr[1] + 8)
    /\ [](cpu.ran # <<>>
            => /\ hook.installed /\ cpu.at = hook.address
               /\ cpu.ran = <<"callback", "original instruction">>
               /\ cpu.xmm0 = [newFov |-> yml.resolution.aspectRatio,
                              times |-> yml.fix.fov.multiplier])
    /\ [][hook.installed => (hook' = hook /\ HookInPlace(mem) /\ HookInPlace(mem'))]_vars

\* The hook on a match of the signature, the game having come to it, Main
\* returned and a thread notification delivered since.
C15_Witness ==
    /\ hook.installed /\ hook.first.kind = "match"
    /\ cpu.ran # <<>>
    /\ loader.notified > 0
    /\ \E t \in Threads : threads[t].pc = "done"

\* C16: each fix is gated by its own flag.  The FOV hook is installed only if
\* masterEnable and fixes.fov.enable are both true, and fovFix is enabled
\* whenever they are, whatever fixes.pillarbox.enable is; the pillarbox patch
\* is applied only if masterEnable and fixes.pillarbox.enable are both true,
\* and pillarBoxFix is enabled whenever they are.
C16_EachFixOwnFlag ==
    /\ hook.installed => (yml.masterEnable /\ yml.fix.fov.enable)
    /\ PatchedBy("pillarBoxFix") # <<>>
         => (yml.masterEnable /\ yml.fix.pillarbox.enable)
    /\ \A t \in Threads :
          threads[t].pc = "done"
          => /\ (yml.masterEnable /\ yml.fix.fov.enable)
                   => Enabled("fovFix") \in log
             /\ (yml.masterEnable /\ yml.fix.pillarbox.enable)
                   => Enabled("pillarBoxFix") \in log

\* C17: Main is started by DLL_PROCESS_ATTACH only and on one thread, never a
\* second; and logInit, readYml, resolutionFix, pillarBoxFix and fovFix begin
\* and end in that order, each ended before the next begins.
C17_MainOnceInOrder ==
    LET order == <<<<"logInit", "begin">>, <<"logInit", "end">>,
                   <<"readYml", "begin">>, <<"readYml", "end">>,
                   <<"resolutionFix", "begin">>, <<"resolutionFix", "end">>,
                   <<"pillarBoxFix", "begin">>, <<"pillarBoxFix", "end">>,
                   <<"fovFix", "begin">>, <<"fovFix", "end">>>>
    IN  /\ Len(threads) <= 1
        /\ \A t \in Threads : threads[t].by = "DLL_PROCESS_ATTACH"
        /\ Len(steps) <= Len(order)
        /\ \A k \in 1..Len(steps) : steps[k] = order[k]
        /\ \A t \in Threads : threads[t].pc = "done" => steps = order

\* Main returned after pillarBoxFix patched its match (past the headers, which
\* hold none) and fovFix hooked its own, a thread notification delivered
\* meanwhile.
C17_Witness ==
    /\ loader.notified > 0
    /\ \E t \in Threads : threads[t].pc = "done"
    /\ PatchedBy("pillarBoxFix") # <<>>
    /\ \A k \in 1..Len(patches) : patches[k].address >= Len(HeaderBytes)
    /\ hook.installed /\ hook.first.kind = "match"

\* C18: while masterEnable is false no step scans, patches, changes a page
\* protection or installs a hook, whatever the flags of the fixes are: the
\* image stays as it was.
C18_MasterOffChangesNothing ==
    [][~yml.masterEnable
         => /\ mem' = mem
            /\ prot' = prot
            /\ call' = call
            /\ patches' = patches
            /\ hook' = hook]_vars

\* Main returned with the master switch off and both fix flags on, over an
\* image that holds the constant and the FOV signature where a scan finds
\* them.
C18_Witness ==
    /\ ~yml.masterEnable /\ yml.fix.pillarbox.enable /\ yml.fix.fov.enable
    /\ \E t \in Threads : threads[t].pc = "done"
    /\ Occurrences(mem, ResolutionBytes) \cap 0..(sizeOfImage - 5) # {}
    /\ Occurrences(mem, FovBytes) \cap 0..(sizeOfImage - 15) # {}
    /\ call = NoCall /\ patches = <<>> /\ ~hook.installed
    /\ {Disabled("resolutionFix"), Disabled("pillarBoxFix"), Disabled("fovFix")} \subseteq log

=============================================================================
